---- MODULE Spec2Model ----
(***************************************************************************)
(* Model of src/app.py: a Streamlit dashboard script.  One render pass is  *)
(* one top-to-bottom execution of the script; the host re-runs the script  *)
(* on every interaction.  The only state that survives a pass is the       *)
(* cache of load_data (st.cache_data, ttl=600) and the files on disk.      *)
(***************************************************************************)
EXTENDS Integers, Sequences, FiniteSets, TLC

VARIABLES files, cache, now, passes, pc, df_wide, df, reads, missing, listed,
          year_sel, dept_sel, term_sel, df_f, kpi, df_ret, df_sat, df_term, out

vars == <<files, cache, now, passes, pc, df_wide, df, reads, missing, listed,
          year_sel, dept_sel, term_sel, df_f, kpi, df_ret, df_sat, df_term, out>>

(***************************************************************************)
(* Bounds of the model.                                                    *)
(***************************************************************************)
MaxRows == 2
MaxPasses == 2

(***************************************************************************)
(* Cells of a table.  A cell is an integer n, a non-integer number n + 1/2,*)
(* a text, or a missing value (NaN / pd.NA / empty CSV field).             *)
(***************************************************************************)
Num(n) == [t |-> "int", n |-> n, s |-> ""]
Frac(n) == [t |-> "frac", n |-> n, s |-> ""]
Txt(s) == [t |-> "str", n |-> 0, s |-> s]
NA == [t |-> "na", n |-> 0, s |-> ""]

IsNum(c) == c.t \in {"int", "frac"}
\* twice the numeric value of a numeric cell, an integer
Twice(c) == IF c.t = "int" THEN 2 * c.n ELSE 2 * c.n + 1

Range(s) == {s[i] : i \in 1..Len(s)}

(***************************************************************************)
(* Frames.  A DataFrame has a set of column names, a sequence of rows      *)
(* (functions from the column names to cells) and the set of its columns   *)
(* whose dtype is the nullable integer Int64.  None is load_data's         *)
(* sentinel.                                                               *)
(***************************************************************************)
DataFrame(cols, rows, int64) == [kind |-> "df", cols |-> cols, rows |-> rows, int64 |-> int64]
None == [kind |-> "None", cols |-> {}, rows |-> <<>>, int64 |-> {}]

DATA_PATHS == <<"university_student_data.csv", "/mnt/data/university_student_data.csv">>

id_vars == {"Year", "Term", "Applications", "Admitted", "Enrolled",
            "Retention Rate (%)", "Student Satisfaction (%)"}
value_vars == <<"Engineering Enrolled", "Business Enrolled", "Arts Enrolled", "Science Enrolled">>
WideColumns == id_vars \cup Range(value_vars)

(***************************************************************************)
(* load_data (lines 24-34): the first candidate that exists and parses.    *)
(* A file on disk is missing, malformed (read_csv raises) or a CSV.        *)
(* reads lists the paths on which read_csv was called.                     *)
(***************************************************************************)
Missing == [kind |-> "missing", cols |-> {}, rows |-> <<>>]
Malformed == [kind |-> "malformed", cols |-> {}, rows |-> <<>>]
Csv(cols, rows) == [kind |-> "csv", cols |-> cols, rows |-> rows]

\* a faulty variant: a candidate that fails to parse ends the walk
RECURSIVE load_from_abort(_, _)
load_from_abort(fs, i) ==
  IF i > Len(DATA_PATHS) THEN [df |-> None, reads |-> <<>>]
  ELSE LET f == fs[i] IN
    IF f.kind = "missing" THEN load_from_abort(fs, i + 1)
    ELSE IF f.kind = "malformed" THEN [df |-> None, reads |-> <<i>>]
    ELSE [df |-> DataFrame(f.cols, f.rows, {}), reads |-> <<i>>]

RECURSIVE load_from(_, _)
load_from(fs, i) ==
  IF i > Len(DATA_PATHS) THEN [df |-> None, reads |-> <<>>]
  ELSE LET f == fs[i] IN
    IF f.kind = "missing" THEN load_from(fs, i + 1)
    ELSE IF f.kind = "malformed"
      THEN LET rest == load_from(fs, i + 1) IN
           [df |-> rest.df, reads |-> <<i>> \o rest.reads]
      ELSE [df |-> DataFrame(f.cols, f.rows, {}), reads |-> <<i>>]

load_data(fs) == load_from(fs, 1)

\* st.cache_data(ttl=600) (line 23): an entry stored at time stamp is served
\* before stamp + ttl and recomputed after it; at the instant stamp + ttl
\* itself the outcome depends on the cache library's comparison and is left
\* open.  CacheServes is the set of possible answers to "is the entry served".
TTL == 600
CacheEmpty == [valid |-> FALSE, value |-> None, stamp |-> 0]
\* a faulty variant: an entry never expires
CacheServes_forever(c, t) == IF c.valid THEN {TRUE} ELSE {FALSE}

CacheServes(c, t) ==
  IF ~c.valid THEN {FALSE}
  ELSE IF t < c.stamp + TTL THEN {TRUE}
  ELSE IF t = c.stamp + TTL THEN {TRUE, FALSE}
  ELSE {FALSE}

(***************************************************************************)
(* Reshaper (lines 42-60).                                                 *)
(***************************************************************************)
\* df.melt raises KeyError when an id_var or value_var is not a column
melt_raises(d) == ~(WideColumns \subseteq d.cols)

melt_cols == id_vars \cup {"Department", "EnrollmentsDept"}

\* a faulty variant: the value is always taken from the first value column
melt_row_first(r, v) ==
  [c \in melt_cols |->
     IF c = "Department" THEN Txt(v)
     ELSE IF c = "EnrollmentsDept" THEN r[value_vars[1]]
     ELSE r[c]]

\* the long row made of wide row r and value column v
melt_row(r, v) ==
  [c \in melt_cols |->
     IF c = "Department" THEN Txt(v)
     ELSE IF c = "EnrollmentsDept" THEN r[v]
     ELSE r[c]]

\* a faulty variant: the four long rows of a wide row are kept together
melt_rows_by_row(rows) ==
  [j \in 1..(Len(value_vars) * Len(rows)) |->
     melt_row(rows[((j - 1) \div Len(value_vars)) + 1], value_vars[((j - 1) % Len(value_vars)) + 1])]

\* pandas melt stacks the value columns one after the other: all rows for
\* the first value column, then all rows for the second, ...
melt_rows(rows) ==
  LET R == Len(rows) IN
  [j \in 1..(Len(value_vars) * R) |->
     melt_row(rows[((j - 1) % R) + 1], value_vars[((j - 1) \div R) + 1])]

melt(d) == DataFrame(melt_cols, melt_rows(d.rows), {})

\* Series.str.replace(" Enrolled", "", regex=False) on the names that occur
str_replace(s) ==
  CASE s = "Engineering Enrolled" -> "Engineering"
    [] s = "Business Enrolled" -> "Business"
    [] s = "Arts Enrolled" -> "Arts"
    [] s = "Science Enrolled" -> "Science"
    [] OTHER -> s

\* df[col] = vals, one value per row; a new column is appended
set_col(d, col, vals) ==
  DataFrame(d.cols \cup {col},
            [i \in 1..Len(d.rows) |->
               [c \in d.cols \cup {col} |-> IF c = col THEN vals[i] ELSE d.rows[i][c]]],
            d.int64)

rename_col(c) ==
  CASE c = "Retention Rate (%)" -> "RetentionRate"
    [] c = "Student Satisfaction (%)" -> "SatisfactionScore"
    [] OTHER -> c

unrename_col(c) ==
  CASE c = "RetentionRate" -> "Retention Rate (%)"
    [] c = "SatisfactionScore" -> "Student Satisfaction (%)"
    [] OTHER -> c

\* df.rename(columns={...}) (lines 54-57)
rename(d) ==
  LET cols == {rename_col(c) : c \in d.cols} IN
  DataFrame(cols,
            [i \in 1..Len(d.rows) |-> [c \in cols |-> d.rows[i][unrename_col(c)]]],
            d.int64)

\* line 51
strip_department(d) ==
  set_col(d, "Department",
          [i \in 1..Len(d.rows) |->
             IF d.rows[i]["Department"].t = "str"
             THEN Txt(str_replace(d.rows[i]["Department"].s))
             ELSE d.rows[i]["Department"]])

\* line 60
copy_enrollments(d) ==
  set_col(d, "Enrollments", [i \in 1..Len(d.rows) |-> d.rows[i]["EnrollmentsDept"]])

\* lines 42-60 on a table that melt accepts
reshape(d) == copy_enrollments(rename(strip_department(melt(d))))

(***************************************************************************)
(* Validator / coercer (lines 62-79).                                      *)
(***************************************************************************)
expected_columns == {"Year", "Department", "Term", "Applications", "Enrollments",
                     "RetentionRate", "SatisfactionScore"}

\* sorted(missing): the expected names in lexicographic order, those missing kept
SortedNames == <<"Applications", "Department", "Enrollments", "RetentionRate",
                 "SatisfactionScore", "Term", "Year">>
sorted_missing(m) == SelectSeq(SortedNames, LAMBDA c : c \in m)

\* pd.to_numeric(errors="coerce") on one cell
to_numeric(c) == IF IsNum(c) THEN c ELSE NA

\* lines 70-75: to_numeric, then astype("Int64"), which raises when a value
\* is not integral; the except branch keeps the float column
coerce_int(d, col) ==
  IF col \notin d.cols THEN d
  ELSE LET e == set_col(d, col, [i \in 1..Len(d.rows) |-> to_numeric(d.rows[i][col])])
           integral == \A i \in 1..Len(e.rows) : e.rows[i][col].t # "frac"
       IN DataFrame(e.cols, e.rows, IF integral THEN e.int64 \cup {col} ELSE e.int64 \ {col})

\* lines 77-79
coerce_float(d, col) ==
  IF col \notin d.cols THEN d
  ELSE set_col(d, col, [i \in 1..Len(d.rows) |-> to_numeric(d.rows[i][col])])

coerce(d) ==
  coerce_float(coerce_float(
    coerce_int(coerce_int(coerce_int(d, "Year"), "Applications"), "Enrollments"),
    "RetentionRate"), "SatisfactionScore")

(***************************************************************************)
(* Sidebar and filter engine (lines 86-102).                               *)
(***************************************************************************)
\* df[col].dropna().unique(): the values offered by the multiselect
options(d, col) == {d.rows[i][col] : i \in 1..Len(d.rows)} \ {NA}

\* a faulty variant: the filter is applied to an empty selection too
isin_filter_unguarded(d, col, sel) ==
  DataFrame(d.cols, SelectSeq(d.rows, LAMBDA r : r[col] \in sel), d.int64)

\* df_f[df_f[col].isin(sel)], applied only when sel is non-empty
isin_filter(d, col, sel) ==
  IF sel # {} THEN DataFrame(d.cols, SelectSeq(d.rows, LAMBDA r : r[col] \in sel), d.int64)
  ELSE d

filter(d, ys, ds, ts) ==
  isin_filter(isin_filter(isin_filter(d, "Year", ys), "Department", ds), "Term", ts)

\* a faulty variant: the guard never sees an empty frame
empty_never(d) == FALSE

\* DataFrame.empty
empty(d) == Len(d.rows) = 0

(***************************************************************************)
(* Aggregator (lines 109-154).  A number is kept as a fraction num/den; a  *)
(* mean over no valid cell is NaN.                                         *)
(***************************************************************************)
NaN == [nan |-> TRUE, num |-> 0, den |-> 1]
Ratio(n, d) == [nan |-> FALSE, num |-> n, den |-> d]

valid_cells(d, col) == SelectSeq(d.rows, LAMBDA r : IsNum(r[col]))

RECURSIVE sum_twice(_, _)
sum_twice(rows, col) ==
  IF rows = <<>> THEN 0 ELSE Twice(Head(rows)[col]) + sum_twice(Tail(rows), col)

\* Series.mean(): missing cells are skipped, NaN when none is left
mean(d, col) ==
  LET v == valid_cells(d, col) IN
  IF Len(v) = 0 THEN NaN ELSE Ratio(sum_twice(v, col), 2 * Len(v))

\* int(x) truncates towards zero; x is given as twice its value
int_of_twice(x) == IF x >= 0 THEN x \div 2 ELSE -((-x) \div 2)

\* line 115: int(df_f["Enrollments"].sum(min_count=1) or 0).  With no valid
\* cell the sum is pd.NA (Int64 column), whose truth value raises TypeError,
\* or NaN (float column), which is truthy, so that int(NaN) raises ValueError.
total_enr_raises(d) == Len(valid_cells(d, "Enrollments")) = 0
total_enr_value(d) == int_of_twice(sum_twice(valid_cells(d, "Enrollments"), "Enrollments"))

KpiNone == [avg_ret |-> NaN, avg_sat |-> NaN, total_enr |-> 0, shown |-> FALSE]

\* lines 112-120: one try block around the three values and the three metrics
kpi_block(d) ==
  IF total_enr_raises(d)
  THEN [avg_ret |-> mean(d, "RetentionRate"), avg_sat |-> mean(d, "SatisfactionScore"),
        total_enr |-> 0, shown |-> FALSE]
  ELSE [avg_ret |-> mean(d, "RetentionRate"), avg_sat |-> mean(d, "SatisfactionScore"),
        total_enr |-> total_enr_value(d), shown |-> TRUE]

kpi_out(d) ==
  IF total_enr_raises(d) THEN <<"error:kpis">>
  ELSE <<"metric:retention", "metric:satisfaction", "metric:enrollments">>

\* ascending order of numeric keys
RECURSIVE sorted_cells(_)
sorted_cells(S) ==
  IF S = {} THEN <<>>
  ELSE LET m == CHOOSE x \in S : \A y \in S : Twice(x) <= Twice(y)
       IN <<m>> \o sorted_cells(S \ {m})

\* lexicographic order of the text keys that occur in the Term column
SortedTerms == <<Txt("Fall"), Txt("Spring")>>

group(d, col, key) == DataFrame(d.cols, SelectSeq(d.rows, LAMBDA r : r[col] = key), d.int64)

\* df_f.groupby("Year", as_index=False)[col].mean(): missing keys are dropped
groupby_year_mean(d, col) ==
  LET keys == sorted_cells(options(d, "Year")) IN
  [i \in 1..Len(keys) |-> [key |-> keys[i], val |-> mean(group(d, "Year", keys[i]), col)]]

\* df_f.groupby("Term", as_index=False)["Enrollments"].sum(): a group without
\* a valid cell sums to 0
groupby_term_sum(d) ==
  LET keys == SelectSeq(SortedTerms, LAMBDA k : k \in options(d, "Term")) IN
  [i \in 1..Len(keys) |->
     [key |-> keys[i],
      val |-> Ratio(sum_twice(valid_cells(group(d, "Term", keys[i]), "Enrollments"), "Enrollments"), 2)]]

(***************************************************************************)
(* Input tables.                                                           *)
(***************************************************************************)
WideRow(year, term, apps, ret, sat, enr) ==
  [c \in WideColumns |->
     CASE c = "Year" -> year
       [] c = "Term" -> term
       [] c = "Applications" -> apps
       [] c = "Admitted" -> Num(70)
       [] c = "Enrolled" -> Num(60)
       [] c = "Retention Rate (%)" -> ret
       [] c = "Student Satisfaction (%)" -> sat
       [] c = "Engineering Enrolled" -> enr[1]
       [] c = "Business Enrolled" -> enr[2]
       [] c = "Arts Enrolled" -> enr[3]
       [] c = "Science Enrolled" -> enr[4]]

\* a complete row, a second year, a row without enrollment counts and with
\* a non-numeric Applications cell, a row with a non-numeric Year, an empty
\* Term and non-integral counts
WideRows ==
  { WideRow(Num(2020), Txt("Fall"), Num(100), Num(85), Frac(4), <<Num(50), Num(30), Num(10), Num(10)>>),
    WideRow(Num(2021), Txt("Spring"), Num(120), Num(90), Num(4), <<Num(40), Num(0), Num(25), Num(5)>>),
    WideRow(Num(2021), Txt("Fall"), Txt("n/a"), NA, NA, <<NA, NA, NA, NA>>),
    WideRow(Txt("n/a"), NA, Num(90), Frac(80), Num(3), <<Frac(1), Num(2), Txt("x"), NA>>) }

RowSeqs == UNION {[1..n -> WideRows] : n \in 0..MaxRows}

\* the table without column c
drop_column(cols, rows, c) ==
  Csv(cols \ {c}, [i \in 1..Len(rows) |-> [k \in cols \ {c} |-> rows[i][k]]])

WellFormed == {Csv(WideColumns, rows) : rows \in RowSeqs}
Lacking == {drop_column(WideColumns, rows, c) :
              rows \in {r \in RowSeqs : Len(r) <= 1}, c \in WideColumns}

TableA == Csv(WideColumns, <<WideRow(Num(2020), Txt("Fall"), Num(100), Num(85), Frac(4),
                                     <<Num(50), Num(30), Num(10), Num(10)>>)>>)
TableB == Csv(WideColumns, <<WideRow(Num(2021), Txt("Fall"), Txt("n/a"), NA, NA, <<NA, NA, NA, NA>>)>>)

\* disk contents at a cold start
ColdFiles ==
  {<<t, Missing>> : t \in WellFormed \cup Lacking}
  \cup {<<a, b>> : a \in {Missing, Malformed}, b \in {Missing, Malformed, TableA, TableB}}
  \cup {<<TableA, TableB>>, <<TableB, TableA>>}

\* disk contents during a session
SessionFiles ==
  {<<TableA, Missing>>, <<TableB, TableA>>, <<Malformed, TableB>>, <<Missing, Missing>>,
   <<drop_column(WideColumns, <<>>, "Term"), Missing>>, <<Csv(WideColumns, <<>>), Missing>>}

\* seconds between two render passes
Deltas == {1, 599, 600, 601}

(***************************************************************************)
(* The render pass.                                                        *)
(***************************************************************************)
PassStart ==
  /\ pc = "load"
  /\ df_wide = None /\ df = None /\ reads = <<>> /\ missing = {} /\ listed = <<>>
  /\ year_sel = {} /\ dept_sel = {} /\ term_sel = {}
  /\ df_f = None /\ kpi = KpiNone
  /\ df_ret = <<>> /\ df_sat = <<>> /\ df_term = <<>>
  /\ out = <<>>

Init ==
  /\ files \in ColdFiles
  /\ cache = CacheEmpty /\ now = 0 /\ passes = 1
  /\ PassStart

InitSession ==
  /\ files \in SessionFiles
  /\ cache = CacheEmpty /\ now = 0 /\ passes = 1
  /\ PassStart

\* line 36: df = load_data(), through the cache
CallLoadData ==
  /\ pc = "load"
  /\ \E served \in CacheServes(cache, now) :
       IF served
       THEN /\ df' = cache.value
            /\ reads' = <<>>
            /\ cache' = cache
       ELSE LET res == load_data(files) IN
            /\ df' = res.df
            /\ reads' = res.reads
            /\ cache' = [valid |-> TRUE, value |-> res.df, stamp |-> now]
  /\ df_wide' = df'
  /\ pc' = "guard"
  /\ UNCHANGED <<files, now, passes, missing, listed, year_sel, dept_sel, term_sel, df_f, kpi,
                 df_ret, df_sat, df_term, out>>

\* a faulty variant: the error is shown but st.stop() is not called
StopOnLoadFailure_nostop ==
  /\ pc = "guard"
  /\ df = None
  /\ out' = Append(out, "error:load")
  /\ pc' = "validate"
  /\ UNCHANGED <<files, cache, now, passes, df_wide, df, reads, missing, listed, year_sel, dept_sel,
                 term_sel, df_f, kpi, df_ret, df_sat, df_term>>

\* lines 37-40
StopOnLoadFailure ==
  /\ pc = "guard"
  /\ df = None
  /\ out' = Append(out, "error:load")
  /\ pc' = "stopped"
  /\ UNCHANGED <<files, cache, now, passes, df_wide, df, reads, missing, listed, year_sel, dept_sel,
                 term_sel, df_f, kpi, df_ret, df_sat, df_term>>

\* line 42 raising KeyError, which nothing catches
ReshapeRaises ==
  /\ pc = "guard"
  /\ df # None
  /\ melt_raises(df)
  /\ pc' = "crashed"
  /\ UNCHANGED <<files, cache, now, passes, df_wide, df, reads, missing, listed, year_sel, dept_sel,
                 term_sel, df_f, kpi, df_ret, df_sat, df_term, out>>

\* lines 42-60
Reshape ==
  /\ pc = "guard"
  /\ df # None
  /\ ~melt_raises(df)
  /\ df' = reshape(df)
  /\ pc' = "validate"
  /\ UNCHANGED <<files, cache, now, passes, df_wide, reads, missing, listed, year_sel, dept_sel,
                 term_sel, df_f, kpi, df_ret, df_sat, df_term, out>>

\* lines 62-84
ValidateCoerce ==
  /\ pc = "validate"
  /\ missing' = expected_columns \ df.cols
  /\ listed' = sorted_missing(missing')
  /\ df' = coerce(df)
  /\ out' = out \o (IF missing' # {} THEN <<"warning:missing_columns">> ELSE <<>>)
                \o <<"subheader:preview", "dataframe:head", "write:shape">>
  /\ pc' = "sidebar"
  /\ UNCHANGED <<files, cache, now, passes, df_wide, reads, year_sel, dept_sel,
                 term_sel, df_f, kpi, df_ret, df_sat, df_term>>

\* lines 86-102: the user's selections are subsets of the offered values
Filter ==
  /\ pc = "sidebar"
  /\ \E ys \in SUBSET options(df, "Year"), ds \in SUBSET options(df, "Department"),
        ts \in SUBSET options(df, "Term") :
       /\ year_sel' = ys /\ dept_sel' = ds /\ term_sel' = ts
       /\ df_f' = filter(df, ys, ds, ts)
  /\ pc' = "emptyguard"
  /\ UNCHANGED <<files, cache, now, passes, df_wide, df, reads, missing, listed, kpi,
                 df_ret, df_sat, df_term, out>>

\* lines 105-107
StopOnEmpty ==
  /\ pc = "emptyguard"
  /\ empty(df_f)
  /\ out' = Append(out, "warning:zero_rows")
  /\ pc' = "stopped"
  /\ UNCHANGED <<files, cache, now, passes, df_wide, df, reads, missing, listed, year_sel, dept_sel,
                 term_sel, df_f, kpi, df_ret, df_sat, df_term>>

\* lines 105-120
KPIs ==
  /\ pc = "emptyguard"
  /\ ~empty(df_f)
  /\ kpi' = kpi_block(df_f)
  /\ out' = out \o <<"subheader:kpis">> \o kpi_out(df_f)
  /\ pc' = "chart1"
  /\ UNCHANGED <<files, cache, now, passes, df_wide, df, reads, missing, listed, year_sel, dept_sel,
                 term_sel, df_f, df_ret, df_sat, df_term>>

\* lines 123-132; the plotting library may raise, the except branch reports it
Chart1 ==
  /\ pc = "chart1"
  /\ df_ret' = groupby_year_mean(df_f, "RetentionRate")
  /\ \E raises \in BOOLEAN :
       out' = out \o <<"subheader:chart1", IF raises THEN "error:chart1" ELSE "pyplot:chart1">>
  /\ pc' = "chart2"
  /\ UNCHANGED <<files, cache, now, passes, df_wide, df, reads, missing, listed, year_sel, dept_sel,
                 term_sel, df_f, kpi, df_sat, df_term>>

\* lines 135-143
Chart2 ==
  /\ pc = "chart2"
  /\ df_sat' = groupby_year_mean(df_f, "SatisfactionScore")
  /\ \E raises \in BOOLEAN :
       out' = out \o <<"subheader:chart2", IF raises THEN "error:chart2" ELSE "pyplot:chart2">>
  /\ pc' = "chart3"
  /\ UNCHANGED <<files, cache, now, passes, df_wide, df, reads, missing, listed, year_sel, dept_sel,
                 term_sel, df_f, kpi, df_ret, df_term>>

\* lines 146-154
Chart3 ==
  /\ pc = "chart3"
  /\ df_term' = groupby_term_sum(df_f)
  /\ \E raises \in BOOLEAN :
       out' = out \o <<"subheader:chart3", IF raises THEN "error:chart3" ELSE "pyplot:chart3">>
  /\ pc' = "table"
  /\ UNCHANGED <<files, cache, now, passes, df_wide, df, reads, missing, listed, year_sel, dept_sel,
                 term_sel, df_f, kpi, df_ret, df_sat>>

\* lines 157-158
FilteredTable ==
  /\ pc = "table"
  /\ out' = out \o <<"subheader:filtered", "dataframe:filtered">>
  /\ pc' = "done"
  /\ UNCHANGED <<files, cache, now, passes, df_wide, df, reads, missing, listed, year_sel, dept_sel,
                 term_sel, df_f, kpi, df_ret, df_sat, df_term>>

\* the host re-runs the script on the next interaction, some seconds later;
\* the files on disk may have been replaced meanwhile
Rerun ==
  /\ pc \in {"done", "stopped", "crashed"}
  /\ passes < MaxPasses
  /\ passes' = passes + 1
  /\ \E d \in Deltas : now' = now + d
  /\ files' \in SessionFiles
  /\ cache' = cache
  /\ pc' = "load"
  /\ df_wide' = None /\ df' = None /\ reads' = <<>> /\ missing' = {} /\ listed' = <<>>
  /\ year_sel' = {} /\ dept_sel' = {} /\ term_sel' = {}
  /\ df_f' = None /\ kpi' = KpiNone
  /\ df_ret' = <<>> /\ df_sat' = <<>> /\ df_term' = <<>>
  /\ out' = <<>>

Next ==
  \/ CallLoadData \/ StopOnLoadFailure \/ ReshapeRaises \/ Reshape \/ ValidateCoerce
  \/ Filter \/ StopOnEmpty \/ KPIs \/ Chart1 \/ Chart2 \/ Chart3 \/ FilteredTable

NextSession == Next \/ Rerun

Spec == Init /\ [][Next]_vars
SpecSession == InitSession /\ [][NextSession]_vars

(***************************************************************************)
(* Properties.                                                             *)
(***************************************************************************)
\* the filter has run in this pass
PastFilter ==
  \/ pc \in {"emptyguard", "chart1", "chart2", "chart3", "table", "done"}
  \/ pc = "stopped" /\ df # None

\* the KPI block has run in this pass
PastKPIs == pc \in {"chart1", "chart2", "chart3", "table", "done"}

AggregateEvents ==
  {"subheader:kpis", "metric:retention", "metric:satisfaction", "metric:enrollments", "error:kpis",
   "subheader:chart1", "pyplot:chart1", "error:chart1",
   "subheader:chart2", "pyplot:chart2", "error:chart2",
   "subheader:chart3", "pyplot:chart3", "error:chart3",
   "subheader:filtered", "dataframe:filtered"}

Selected(r) ==
  /\ (year_sel = {} \/ r["Year"] \in year_sel)
  /\ (dept_sel = {} \/ r["Department"] \in dept_sel)
  /\ (term_sel = {} \/ r["Term"] \in term_sel)

\* C1: the filtered table holds exactly the rows of the long table whose
\* Year, Department and Term each belong to the corresponding selection or
\* whose selection is empty, the three dimensions combined with AND.
C1_FilterMembership ==
  PastFilter =>
    /\ df_f.rows = SelectSeq(df.rows, Selected)
    /\ \A i \in 1..Len(df.rows) : (df.rows[i] \in Range(df_f.rows)) <=> Selected(df.rows[i])

C1_Witness ==
  /\ PastFilter
  /\ year_sel # {} /\ dept_sel = {} /\ term_sel # {}
  /\ Len(df_f.rows) > 0
  /\ Len(df_f.rows) < Len(df.rows)
  /\ \E i \in 1..Len(df.rows) : df.rows[i]["Year"] \notin year_sel /\ df.rows[i]["Term"] \in term_sel

\* C2: a pass whose filtered subset is empty emits the zero-rows warning and
\* stops; no KPI, chart aggregation or filtered-table output happens, and
\* the pass does not crash.
C2_EmptyStops ==
  (PastFilter /\ pc # "emptyguard" /\ Len(df_f.rows) = 0) =>
    /\ pc = "stopped"
    /\ out[Len(out)] = "warning:zero_rows"
    /\ Range(out) \cap AggregateEvents = {}
    /\ kpi = KpiNone /\ df_ret = <<>> /\ df_sat = <<>> /\ df_term = <<>>

C2_Witness ==
  /\ pc = "stopped" /\ df # None
  /\ Len(df.rows) > 0 /\ Len(df_f.rows) = 0
  /\ "warning:zero_rows" \in Range(out)

\* C3: when load_data returns None the pass reports the load error and
\* halts: reshaper, validator, filter and aggregator are never reached.
C3_LoadFailureHalts ==
  (pc # "load" /\ df_wide = None) =>
    /\ pc \in {"guard", "stopped"}
    /\ (pc = "stopped" => out = <<"error:load">>)
    /\ (pc = "guard" => out = <<>>)
    /\ df = None /\ missing = {} /\ listed = <<>> /\ df_f = None
    /\ kpi = KpiNone /\ df_ret = <<>> /\ df_sat = <<>> /\ df_term = <<>>

C3_Witness ==
  /\ pc = "stopped" /\ df_wide = None /\ out = <<"error:load">>
  /\ \A i \in 1..Len(DATA_PATHS) : files[i].kind = "missing"

Parseable == {i \in 1..Len(DATA_PATHS) : files[i].kind = "csv"}
FirstParseable == CHOOSE i \in Parseable : \A j \in Parseable : i <= j

\* C4: load_data returns the table of the first candidate, in declared
\* order, that exists and parses; missing candidates are not read, candidates
\* that fail to parse are read and skipped without raising; None is
\* returned exactly when no candidate exists and parses.
C4_FirstParseable ==
  pc # "load" =>
    /\ (df_wide = None) <=> (Parseable = {})
    /\ Parseable # {} =>
         /\ df_wide.cols = files[FirstParseable].cols
         /\ df_wide.rows = files[FirstParseable].rows
         /\ reads = SelectSeq([i \in 1..FirstParseable |-> i], LAMBDA i : files[i].kind # "missing")
    /\ Parseable = {} =>
         reads = SelectSeq([i \in 1..Len(DATA_PATHS) |-> i], LAMBDA i : files[i].kind # "missing")

C4_Witness ==
  /\ pc = "guard"
  /\ files[1].kind = "malformed" /\ files[2].kind = "csv"
  /\ df_wide # None /\ df_wide.rows = files[2].rows
  /\ reads = <<1, 2>>

\* C5: a load_data call made less than 600 seconds after the call that
\* filled the cache returns the cached table and reads no file; a call made
\* more than 600 seconds after it reads the candidate files again.
C5_CacheWindow ==
  [][(pc = "load" /\ pc' = "guard" /\ cache.valid) =>
       /\ (now - cache.stamp < TTL) =>
            /\ df' = cache.value
            /\ Len(df'.rows) = Len(cache.value.rows)
            /\ reads' = <<>>
            /\ cache' = cache
       /\ (now - cache.stamp > TTL) =>
            /\ reads' = SelectSeq([i \in 1..(IF Parseable = {} THEN Len(DATA_PATHS) ELSE FirstParseable) |-> i],
                                  LAMBDA i : files[i].kind # "missing")
            /\ (Parseable # {} => df'.rows = files[FirstParseable].rows /\ df'.cols = files[FirstParseable].cols)
            /\ (Parseable = {} => df' = None)
            /\ cache'.stamp = now]_vars

C5_Witness ==
  /\ passes >= 2 /\ pc = "guard"
  /\ cache.valid /\ now - cache.stamp > 0 /\ now - cache.stamp < TTL
  /\ reads = <<>>
  /\ df = cache.value /\ df # None
  /\ Parseable # {} /\ files[FirstParseable].rows # df.rows

Departments == <<"Engineering", "Business", "Arts", "Science">>
EnrolledColumn(k) ==
  CASE k = 1 -> "Engineering Enrolled"
    [] k = 2 -> "Business Enrolled"
    [] k = 3 -> "Arts Enrolled"
    [] k = 4 -> "Science Enrolled"

\* the long row that wide row i yields for the k-th department
ExpectedLong(i, k) ==
  [c \in expected_columns |->
     CASE c = "Department" -> Txt(Departments[k])
       [] c = "Enrollments" -> df_wide.rows[i][EnrolledColumn(k)]
       [] c = "RetentionRate" -> df_wide.rows[i]["Retention Rate (%)"]
       [] c = "SatisfactionScore" -> df_wide.rows[i]["Student Satisfaction (%)"]
       [] OTHER -> df_wide.rows[i][c]]

Project(r) == [c \in expected_columns |-> r[c]]

\* the reshaped table, before coercion
Reshaped == pc = "validate"

\* C6: a wide table of R rows reshapes to 4R rows; each wide row yields
\* exactly one long row per department Engineering, Business, Arts and
\* Science, whose Enrollments is that department's count and whose Year,
\* Term, Applications, RetentionRate and SatisfactionScore are the wide row's.
C6_ReshapeContent ==
  Reshaped =>
    LET R == Len(df_wide.rows)
        pairs == (1..R) \X (1..4)
        want == {ExpectedLong(p[1], p[2]) : p \in pairs}
        have == {Project(df.rows[j]) : j \in 1..Len(df.rows)}
    IN /\ Len(df.rows) = 4 * R
       /\ expected_columns \subseteq df.cols
       /\ \A x \in want \cup have :
            Cardinality({j \in 1..Len(df.rows) : Project(df.rows[j]) = x})
              = Cardinality({p \in pairs : ExpectedLong(p[1], p[2]) = x})

C6_Witness ==
  /\ Reshaped
  /\ Len(df_wide.rows) >= 2
  /\ df_wide.rows[1] # df_wide.rows[2]
  /\ Len(df.rows) = 4 * Len(df_wide.rows)
  /\ \E j \in 1..Len(df.rows) : df.rows[j]["Enrollments"] = Num(30)

\* C7: every KPI is guarded on its own, so that whatever happens to the
\* total-enrollments KPI the retention and satisfaction KPIs are displayed,
\* and every chart is either drawn or reported on its own.
C7_IndependentGuards ==
  PastKPIs =>
    /\ "metric:retention" \in Range(out)
    /\ "metric:satisfaction" \in Range(out)
    /\ (pc = "done" =>
          /\ "pyplot:chart1" \in Range(out) \/ "error:chart1" \in Range(out)
          /\ "pyplot:chart2" \in Range(out) \/ "error:chart2" \in Range(out)
          /\ "pyplot:chart3" \in Range(out) \/ "error:chart3" \in Range(out))

\* C8: for a non-empty filtered subset the total-enrollments KPI is the sum
\* of the non-missing Enrollments cells, and it is 0, without an error, when
\* every Enrollments cell of the subset is missing.
\* (The sum is compared for an integer column; int() truncates the sum of a
\* float column.)
C8_TotalEnrollments ==
  PastKPIs =>
    LET v == {j \in 1..Len(df_f.rows) : IsNum(df_f.rows[j]["Enrollments"])} IN
    IF v = {}
    THEN kpi.shown /\ kpi.total_enr = 0 /\ "error:kpis" \notin Range(out)
    ELSE "Enrollments" \in df_f.int64 =>
           /\ kpi.shown /\ "metric:enrollments" \in Range(out)
           /\ 2 * kpi.total_enr = sum_twice(valid_cells(df_f, "Enrollments"), "Enrollments")

\* the wide columns from which the expected columns are made
ExpectedSources ==
  {"Year", "Term", "Applications", "Retention Rate (%)", "Student Satisfaction (%)",
   "Engineering Enrolled", "Business Enrolled", "Arts Enrolled", "Science Enrolled"}

\* C9: when the loaded table lacks a column from which an expected column
\* is made, the pass warns with the sorted list of the missing names and
\* goes on; no uncaught exception ends it.
C9_MissingColumnsWarn ==
  (pc \notin {"load", "guard"} /\ df_wide # None /\ ~(ExpectedSources \subseteq df_wide.cols)) =>
    /\ pc # "crashed"
    /\ (pc # "validate" => "warning:missing_columns" \in Range(out) /\ listed # <<>>)

\* C10 as stated: the long table is ordered by wide row first, by
\* department second.
C10_RowMajor ==
  Reshaped =>
    \A i \in 1..Len(df_wide.rows) : \A k \in 1..4 :
      Project(df.rows[4 * (i - 1) + k]) = ExpectedLong(i, k)

\* C10, amended: the long table is ordered by department first, in the
\* order Engineering, Business, Arts, Science, and by wide row second: with
\* R wide rows, long row (k-1)R + i is wide row i for the k-th department.
C10_DepartmentMajor ==
  Reshaped =>
    LET R == Len(df_wide.rows) IN
    /\ Len(df.rows) = 4 * R
    /\ \A i \in 1..R : \A k \in 1..4 :
         Project(df.rows[(k - 1) * R + i]) = ExpectedLong(i, k)

C10_Witness ==
  /\ Reshaped
  /\ Len(df_wide.rows) >= 2
  /\ df_wide.rows[1]["Year"] # df_wide.rows[2]["Year"]
  /\ df.rows[1]["Department"] = Txt("Engineering")
  /\ df.rows[2]["Department"] = Txt("Engineering")
  /\ df.rows[2]["Year"] = df_wide.rows[2]["Year"]

====
